---- MODULE Spec2Model ----
(***************************************************************************)
(* Model of the plakar example integration: the directory-walking          *)
(* TestImporter (importer/importer.go) and the hard-coded testConnector    *)
(* importer/exporter (connector.go), driven by a host over Go channels.    *)
(*                                                                         *)
(* Strings are sequences of tokens: the separators ":" and "/" are tokens  *)
(* of their own and every maximal run of other characters is one token,    *)
(* so strings.HasPrefix / TrimPrefix / filepath.Clean are computed on the  *)
(* token sequence exactly as the Go code computes them on bytes.           *)
(***************************************************************************)
EXTENDS Integers, Sequences, FiniteSets, TLC

(* ------------------------------ bounds --------------------------------- *)

\* number of filesystem faults the environment may inject in one behaviour
MaxFaults == 1

\* largest channel capacity the host may pick (0 = unbuffered)
MaxCap == 1

\* number of Records the host may send to one Export call
MaxRecords == 2

\* number of Close calls the host may make on one Connector
MaxCloses == 2

(* ------------------------- string primitives --------------------------- *)

\* strings.HasPrefix(s, prefix)
HasPrefix(s, prefix) ==
    /\ Len(s) >= Len(prefix)
    /\ SubSeq(s, 1, Len(prefix)) = prefix

\* strings.TrimPrefix(s, prefix)
TrimPrefix(s, prefix) ==
    IF HasPrefix(s, prefix) THEN SubSeq(s, Len(prefix) + 1, Len(s)) ELSE s

\* The recursive operators below bind their arguments once
\* (x \in {argument}) before they use them: the value of an argument is then
\* computed one time per call.

\* the elements of s between separators "/" (strings.Split(s, "/"))
RECURSIVE SplitSlash(_)
SplitSlash(str) ==
    CHOOSE r \in
        { IF \A i \in 1..Len(s) : s[i] # "/"
          THEN <<s>>
          ELSE LET k == CHOOSE i \in 1..Len(s) :
                            /\ s[i] = "/"
                            /\ \A j \in 1..(i - 1) : s[j] # "/"
               IN  <<SubSeq(s, 1, k - 1)>> \o SplitSlash(SubSeq(s, k + 1, Len(s)))
          : s \in {str} } : TRUE

\* the lexical processing of filepath.Clean on the elements of a path:
\* empty and "." elements are dropped, ".." removes the element before it
\* (at the root of a rooted path it is dropped, otherwise it is kept)
RECURSIVE CleanElems(_, _, _)
CleanElems(todo, done, rooted) ==
    CHOOSE r \in
        { IF elems = <<>> THEN out
          ELSE LET e    == Head(elems)
                   rest == Tail(elems)
               IN  IF e = <<>> \/ e = <<".">>
                   THEN CleanElems(rest, out, rooted)
                   ELSE IF e = <<"..">>
                   THEN IF out # <<>> /\ out[Len(out)] # <<"..">>
                        THEN CleanElems(rest, SubSeq(out, 1, Len(out) - 1), rooted)
                        ELSE IF rooted
                             THEN CleanElems(rest, out, rooted)
                             ELSE CleanElems(rest, Append(out, e), rooted)
                   ELSE CleanElems(rest, Append(out, e), rooted)
          : elems \in {todo}, out \in {done} } : TRUE

\* strings.Join(elems, "/")
RECURSIVE JoinSlash(_)
JoinSlash(list) ==
    CHOOSE r \in
        { IF elems = <<>> THEN <<>>
          ELSE IF Len(elems) = 1 THEN elems[1]
          ELSE elems[1] \o <<"/">> \o JoinSlash(Tail(elems))
          : elems \in {list} } : TRUE

\* filepath.Clean(path)
Clean(str) ==
    CHOOSE r \in
        { IF path = <<>> THEN <<".">>
          ELSE LET rooted == path[1] = "/"
               IN  CHOOSE c \in
                     { IF rooted THEN <<"/">> \o JoinSlash(out)
                       ELSE IF out = <<>> THEN <<".">>
                       ELSE JoinSlash(out)
                       : out \in {CleanElems(SplitSlash(path), <<>>, rooted)} } : TRUE
          : path \in {str} } : TRUE

\* filepath.Join(dir, name)
Join(dir, name) == Clean(dir \o <<"/">> \o name)

\* filepath.Base(path): the last element of path; "/" for a path of slashes
RECURSIVE Base(_)
Base(str) ==
    CHOOSE r \in
        { IF path = <<>> THEN <<".">>
          ELSE IF path[Len(path)] = "/"
               THEN IF Len(path) = 1 THEN <<"/">>
                    ELSE Base(SubSeq(path, 1, Len(path) - 1))
          ELSE CHOOSE b \in { elems[Len(elems)] : elems \in {SplitSlash(path)} } : TRUE
          : path \in {str} } : TRUE

(* ----------------------------- filesystem ------------------------------ *)

\* connector.go: const FILE
FILE == <<"/", "home", "/", "tracepanic", "/", "Documents", "/", "notes.md">>

\* The tree the host machine holds; an entry is named by its elements from
\* the filesystem root.  /tmp/src is the tree of the import scenario.
Dirs ==
    { <<>>, <<"tmp">>, <<"tmp", "src">>, <<"tmp", "src", "b">>,
      <<"home">>, <<"home", "tracepanic">>,
      <<"home", "tracepanic", "Documents">> }

FileSize ==
    ( <<"tmp", "src", "a.txt">>      :> 5 ) @@
    ( <<"tmp", "src", "b", "c.txt">> :> 3 ) @@
    ( <<"home", "tracepanic", "Documents", "notes.md">> :> 7 )

Files == DOMAIN FileSize

Entries == Dirs \cup Files

\* byte order of the entry names, as os.ReadDir sorts them
NameOrder ==
    <<"Documents", "a.txt", "b", "c.txt", "home", "notes.md", "src",
      "tmp", "tracepanic">>

NameRank(n) == CHOOSE i \in 1..Len(NameOrder) : NameOrder[i] = n

\* the path string of an entry
RECURSIVE PathOf(_)
PathOf(entry) ==
    CHOOSE r \in
        { IF e = <<>> THEN <<"/">>
          ELSE IF Len(e) = 1 THEN <<"/", e[1]>>
          ELSE PathOf(SubSeq(e, 1, Len(e) - 1)) \o <<"/", e[Len(e)]>>
          : e \in {entry} } : TRUE

IsAncestorOrSelf(a, e) == Len(a) <= Len(e) /\ SubSeq(e, 1, Len(a)) = a

(* ------------------------------- state --------------------------------- *)

VARIABLES
    fs,             \* status of every filesystem entry: "ok", "missing", "unlistable"
    faults,         \* number of faults injected so far
    ctor,           \* the constructor the host called ("none" before)
    config,         \* the configuration mapping the host constructed with
    conn,           \* the Connector instance, or NoConn
    ctorErr,        \* the error the constructor returned ("nil" if none)
    op,             \* the operation call in progress or finished: "none", "Import", "Export"
    pc,             \* position of the operation call
    stack,          \* WalkDir: the entries still to walk, next one first
    cur,            \* the Record (Import) or Result (Export) about to be sent
    retErr,         \* the error the operation call returned
    rootErr,        \* Import: the error met on the traversal root ("none" if none)
    cap,            \* capacity of the channels the host created
    records,        \* buffer of the Record channel
    recordsClosed,  \* number of close events on the Record channel
    results,        \* buffer of the Result channel
    resultsClosed,  \* number of close events on the Result channel
    sent,           \* Import: every Record sent so far, in order
    recvd,          \* Export: every Record received so far, in order
    resSent,        \* Export: every Result sent so far, in order
    hostSent,       \* Export: number of Records the host has sent
    ctxDone,        \* the host cancelled the context
    hostStopped,    \* the host stopped sending, receiving and closing
    stderr,         \* what was written to os.Stderr, in order
    stdout,         \* what was written to os.Stdout, in order
    dst,            \* files created at the export destination: path -> bytes
    closeCalls,     \* number of Close calls made on the Connector
    closeErr,       \* what the last Close call returned
    pingErr,        \* what the last Ping call returned
    acked,          \* number of Results the host sent to an Import
    streamLog       \* Export: content streams received and closed, in order

envVars  == <<fs, faults>>
ctorVars == <<ctor, config, conn, ctorErr>>
callVars == <<op, pc, stack, cur, retErr, rootErr>>
recVars  == <<records, recordsClosed, sent>>
resVars  == <<results, resultsClosed, resSent>>
expVars  == <<recvd, hostSent, acked>>
lifeVars == <<closeCalls, closeErr, pingErr>>
hostVars == <<ctxDone, hostStopped, lifeVars>>
outVars  == <<stderr, stdout, dst, streamLog>>

vars == <<fs, faults, ctor, config, conn, ctorErr, op, pc, stack, cur, retErr,
          rootErr, cap,
          records, recordsClosed, results, resultsClosed, sent, recvd,
          resSent, hostSent, ctxDone, hostStopped, stderr, stdout, dst,
          closeCalls, closeErr, pingErr, acked, streamLog>>

NoConn == [type |-> "none"]
NoItem == [kind |-> "none"]

(* ------------------------- filesystem operations ----------------------- *)

\* an entry exists when neither it nor a directory above it was removed
Present(e) == \A a \in Entries : IsAncestorOrSelf(a, e) => fs[a] # "missing"

Lookup(path) == { e \in Entries : PathOf(e) = path }

\* a stat that never fails
StatOK_Always(path) ==
    TRUE

\* os.Stat(path) / os.Lstat(path) returns no error (the tree has no symlinks)
StatOK(path) == \E e \in Lookup(path) : Present(e)

\* the entry os.Stat(path) describes
StatEntry(path) == CHOOSE e \in Lookup(path) : Present(e)

\* info.IsDir() / info.Size()
IsDirEntry(e) == e \in Dirs
SizeOf(e) == IF e \in Files THEN FileSize[e] ELSE 0

\* os.ReadDir(path) returns no error: the directory exists and can be opened
\* for reading
ReadDirOK(path) ==
    \E e \in Lookup(path) : Present(e) /\ e \in Dirs /\ fs[e] = "ok"

ChildrenOf(e) ==
    { c \in Entries : Len(c) = Len(e) + 1 /\ IsAncestorOrSelf(e, c) /\ Present(c) }

RECURSIVE SortByName(_)
SortByName(set) ==
    CHOOSE r \in
        { IF S = {} THEN <<>>
          ELSE CHOOSE q \in
                 { <<m>> \o SortByName(S \ {m})
                   : m \in { c \in S :
                               \A o \in S : NameRank(c[Len(c)]) <= NameRank(o[Len(o)]) } }
                 : TRUE
          : S \in {set} } : TRUE

\* os.ReadDir returning the entries in the reverse of the filename order
ReadDir_Reversed(path) ==
    IF ReadDirOK(path)
    THEN CHOOSE r \in
           { [i \in 1..Len(kids) |->
                 [name  |-> <<kids[Len(kids) + 1 - i][Len(kids[Len(kids) + 1 - i])]>>,
                  isDir |-> IsDirEntry(kids[Len(kids) + 1 - i])]]
             : kids \in {SortByName(ChildrenOf(StatEntry(path)))} } : TRUE
    ELSE <<>>

\* os.ReadDir(path): the directory entries sorted by filename; a directory
\* that cannot be opened yields no entries (and an error, see ReadDirOK)
ReadDir(path) ==
    IF ReadDirOK(path)
    THEN CHOOSE r \in
           { [i \in 1..Len(kids) |->
                 [name |-> <<kids[i][Len(kids[i])]>>, isDir |-> IsDirEntry(kids[i])]]
             : kids \in {SortByName(ChildrenOf(StatEntry(path)))} } : TRUE
    ELSE <<>>

(* ------------------------------ constructors --------------------------- *)

\* importer.Register("test", ...): the protocol name the host passes
ProtoName == <<"test">>

\* the location strings the host may configure
Locations ==
    { <<"test", ":", "/", "/", "/", "tmp", "/", "src">>,
      <<"test", ":", "/", "/">>,
      <<"test", ":", "/", "tmp", "/", "src", "/", "a.txt">>,
      <<"test", ":", "/", "/", "/", "tmp", "/", "src", "/", "..", "/", "src",
        "/", ".", "/", "b", "/">>,
      <<"test", ":", "/", "/", "/", "nope">>,
      <<"tmp", "/", "src">> }

\* the configuration mappings: with a location key, or without one
Configs ==
    { [k \in {"location"} |-> l] : l \in Locations } \cup { [k \in {} |-> <<>>] }

\* the configurations the host passes to constructor c; NewImporter and
\* NewExporter are given one without a location, the scenario's location and
\* the bare protocol prefix
ConfigsFor(c) ==
    IF c = "NewTestImporter" THEN Configs
    ELSE { cfg \in Configs :
              "location" \in DOMAIN cfg =>
                  cfg["location"] \in
                      { <<"test", ":", "/", "/", "/", "tmp", "/", "src">>,
                        <<"test", ":", "/", "/">> } }

\* the resolution with only the protocol name stripped, the colon left
ResolveLocation_KeepColon(name, location) ==
    LET stripped == IF HasPrefix(location, name \o <<":", "/">>)
                    THEN TrimPrefix(location, name)
                    ELSE location
        absolute == IF ~HasPrefix(stripped, <<"/">>)
                    THEN <<"/">> \o stripped
                    ELSE stripped
    IN  Clean(absolute)

\* NewTestImporter: the path the location resolves to
ResolveLocation(name, location) ==
    LET stripped == IF HasPrefix(location, name \o <<":", "/">>)
                    THEN TrimPrefix(location, name \o <<":">>)
                    ELSE location
        absolute == IF ~HasPrefix(stripped, <<"/">>)
                    THEN <<"/">> \o stripped
                    ELSE stripped
    IN  Clean(absolute)

\* NewTestImporter without the check of the location key: a missing key
\* reads as the empty string
NewTestImporterResult_NoKeyCheck(name, cfg) ==
    LET location  == IF "location" \in DOMAIN cfg THEN cfg["location"] ELSE <<>>
        cleanPath == ResolveLocation(name, location)
    IN  IF ~StatOK(cleanPath)
        THEN [conn |-> NoConn, err |-> "cannot access location"]
        ELSE [conn |-> [type |-> "TestImporter", scanDir |-> cleanPath],
              err  |-> "nil"]

\* NewTestImporter(ctx, opts, name, config): <<importer, error>>
NewTestImporterResult(name, cfg) ==
    IF "location" \notin DOMAIN cfg
    THEN [conn |-> NoConn, err |-> "missing location"]
    ELSE LET cleanPath == ResolveLocation(name, cfg["location"])
         IN  IF ~StatOK(cleanPath)
             THEN [conn |-> NoConn, err |-> "cannot access location"]
             ELSE [conn |-> [type |-> "TestImporter", scanDir |-> cleanPath],
                   err  |-> "nil"]

\* NewImporter(ctx, opts, proto, config): <<importer, error>>
NewImporterResult(proto, cfg) ==
    [conn |-> [type |-> "testConnector", role |-> "importer"], err |-> "nil"]

\* NewExporter(ctx, opts, proto, config): <<exporter, error>>
NewExporterResult(proto, cfg) ==
    [conn |-> [type |-> "testConnector", role |-> "exporter"], err |-> "nil"]

\* the constructors main() hands to the SDK entrypoints
Constructors == {"NewTestImporter", "NewImporter", "NewExporter"}

ConstructResult(c, name, cfg) ==
    CASE c = "NewTestImporter" -> NewTestImporterResult(name, cfg)
      [] c = "NewImporter"     -> NewImporterResult(name, cfg)
      [] c = "NewExporter"     -> NewExporterResult(name, cfg)

\* (f *TestImporter) Root() / (f *testConnector) Root()
Root(c) ==
    IF c.type = "TestImporter" THEN c.scanDir
    ELSE <<"/", "home", "/", "tracepanic", "/", "Documents">>

Init ==
    /\ fs = [e \in Entries |-> "ok"]
    /\ faults = 0
    /\ ctor = "none"
    /\ config = [k \in {} |-> <<>>]
    /\ conn = NoConn
    /\ ctorErr = "none"
    /\ op = "none"
    /\ pc = "idle"
    /\ stack = <<>>
    /\ cur = NoItem
    /\ retErr = "none"
    /\ rootErr = "none"
    /\ cap \in 0..MaxCap
    /\ records = <<>>
    /\ recordsClosed = 0
    /\ results = <<>>
    /\ resultsClosed = 0
    /\ sent = <<>>
    /\ recvd = <<>>
    /\ resSent = <<>>
    /\ hostSent = 0
    /\ ctxDone = FALSE
    /\ hostStopped = FALSE
    /\ stderr = <<>>
    /\ stdout = <<>>
    /\ dst = [p \in {} |-> 0]
    /\ closeCalls = 0
    /\ closeErr = "none"
    /\ pingErr = "none"
    /\ acked = 0
    /\ streamLog = <<>>

(* ------------------------------ environment ---------------------------- *)

\* the filesystem changes under the connector: an entry is removed, or a
\* directory loses its read permission.  Only the constructor and the two
\* Import methods read the filesystem (os.Stat, filepath.WalkDir), so the
\* changes that matter come before the call returns and never to an exporter;
\* an Import that follows an Export of Records reads the tree as it was left.
\* the entries that change: those of the import scenario's tree under /tmp
\* and the file FILE names
Faulty ==
    { e \in Entries : IsAncestorOrSelf(<<"tmp">>, e) } \cup Lookup(FILE)

Fault ==
    /\ faults < MaxFaults
    /\ pc # "returned"
    /\ ctor # "NewExporter"
    /\ recvd = <<>>
    /\ closeCalls = 0
    /\ \E e \in Entries, k \in {"missing", "unlistable"} :
          /\ fs[e] = "ok"
          /\ e \in Faulty
          /\ k = "missing" => e # <<>>
          /\ k = "unlistable" => e \in Dirs
          /\ fs' = [fs EXCEPT ![e] = k]
    /\ faults' = faults + 1
    /\ UNCHANGED <<ctorVars, callVars, cap, recVars, resVars, expVars,
                   hostVars, outVars>>

\* the host calls a constructor with some configuration (the exporter, which
\* reads nothing from the filesystem, on the intact tree)
Construct ==
    /\ ctorErr = "none"
    /\ \E c \in Constructors : \E cfg \in ConfigsFor(c) :
          LET r == ConstructResult(c, ProtoName, cfg)
          IN  /\ c = "NewExporter" => faults = 0
              /\ ctor' = c
              /\ config' = cfg
              /\ conn' = r.conn
              /\ ctorErr' = r.err
    /\ UNCHANGED <<envVars, callVars, cap, recVars, resVars, expVars,
                   hostVars, outVars>>

\* the host cancels the context it passed to Import / Export
HostCancel ==
    /\ op # "none"
    /\ ~ctxDone
    /\ ctxDone' = TRUE
    /\ UNCHANGED <<envVars, ctorVars, callVars, cap, recVars, resVars,
                   expVars, hostStopped, lifeVars, outVars>>

\* the host stops serving the channels (it no longer sends, receives or closes)
HostStop ==
    /\ op # "none"
    /\ ~hostStopped
    /\ hostStopped' = TRUE
    /\ UNCHANGED <<envVars, ctorVars, callVars, cap, recVars, resVars,
                   expVars, ctxDone, lifeVars, outVars>>

(* ------------------------------- channels ------------------------------ *)

\* a send that needs room in a buffer: none completes on an unbuffered channel
CanSend_NeedsBuffer(buf) ==
    Len(buf) < cap

\* a send on a channel with buffer buf does not block: the buffer has room,
\* or the channel is unbuffered and the host is at the other end
CanSend(buf) ==
    IF cap = 0 THEN ~hostStopped ELSE Len(buf) < cap

\* the buffer after the send of v (an unbuffered send hands v to the host)
AfterSend(buf, v) ==
    IF cap = 0 THEN buf ELSE Append(buf, v)

(* ------------------------- TestImporter.Import ------------------------- *)

\* connectors.NewRecord(path, "", fi, nil, open) with the FileInfo the
\* importers fill in
NewRecord(path, size) ==
    [kind     |-> "record",
     Pathname |-> path,
     Lname    |-> Base(path),
     Lsize    |-> size,
     Ldev     |-> 1,
     Reader   |-> NoItem]

\* (f *TestImporter) Ping(ctx)
Ping(c) ==
    IF c.type = "testConnector"
    THEN "nil"
    ELSE IF StatOK(c.scanDir) THEN "nil" ELSE "stat error"

\* d.Info(): the root's DirEntry carries the FileInfo of WalkDir's Lstat,
\* an entry read from a directory is stat'ed when asked
InfoOK(d) == d.cached \/ StatOK(d.path)

\* info.Size() of the FileInfo d.Info() returned
InfoSize(d) == SizeOf(CHOOSE e \in Lookup(d.path) : TRUE)

\* the callback without the d.IsDir() test: directories are sent too
WalkFn_NoDirSkip(d, err) ==
    IF err # "nil" THEN [err |-> "nil", rec |-> NoItem]
    ELSE IF ~InfoOK(d) THEN [err |-> "nil", rec |-> NoItem]
    ELSE [err |-> "nil",
          rec |-> NewRecord(d.path, InfoSize(d))]

\* the callback with a strict policy: an error on an entry is returned
WalkFn_Strict(d, err) ==
    IF err # "nil" THEN [err |-> err, rec |-> NoItem]
    ELSE IF d.isDir THEN [err |-> "nil", rec |-> NoItem]
    ELSE IF ~InfoOK(d) THEN [err |-> "info error", rec |-> NoItem]
    ELSE [err |-> "nil",
          rec |-> NewRecord(d.path, InfoSize(d))]

\* the callback TestImporter.Import passes to filepath.WalkDir: the error it
\* returns and the Record it sends (NoItem if it sends none)
WalkFn(d, err) ==
    IF err # "nil" THEN [err |-> "nil", rec |-> NoItem]
    ELSE IF d.isDir THEN [err |-> "nil", rec |-> NoItem]
    ELSE IF ~InfoOK(d) THEN [err |-> "nil", rec |-> NoItem]
    ELSE [err |-> "nil",
          rec |-> NewRecord(d.path, InfoSize(d))]

\* Import returning without the deferred close
ImportReturn_NoClose(err) ==
    /\ recordsClosed' = recordsClosed
    /\ retErr' = err
    /\ pc' = "returned"

\* defer close(records); return err
ImportReturn(err) ==
    /\ recordsClosed' = recordsClosed + 1
    /\ retErr' = err
    /\ pc' = "returned"

\* the host calls Import on an importer
StartImport ==
    /\ op = "none"
    /\ closeCalls = 0
    /\ conn.type = "TestImporter" \/ (conn.type = "testConnector" /\ conn.role = "importer")
    /\ op' = "Import"
    /\ pc' = IF conn.type = "TestImporter" THEN "ping" ELSE "stat"
    /\ pingErr' = "none"
    /\ UNCHANGED <<envVars, ctorVars, rootErr, stack, cur, retErr, cap, recVars,
                   resVars, expVars, ctxDone, hostStopped, closeCalls, closeErr,
                   outVars>>

\* importer.go: if err := f.Ping(ctx); err != nil { return err }
TI_Ping ==
    /\ op = "Import" /\ conn.type = "TestImporter" /\ pc = "ping"
    /\ IF Ping(conn) # "nil"
       THEN ImportReturn(Ping(conn)) /\ rootErr' = "ping"
       ELSE /\ pc' = "lstat"
            /\ UNCHANGED <<recordsClosed, retErr, rootErr>>
    /\ UNCHANGED <<envVars, ctorVars, op, stack, cur, cap, records, sent,
                   resVars, expVars, hostVars, outVars>>

\* filepath.WalkDir: info, err := os.Lstat(root); on an error the callback
\* decides what WalkDir returns
TI_Lstat ==
    /\ op = "Import" /\ conn.type = "TestImporter" /\ pc = "lstat"
    /\ IF ~StatOK(conn.scanDir)
       THEN /\ ImportReturn(WalkFn([path |-> conn.scanDir, isDir |-> FALSE,
                                    cached |-> FALSE], "lstat error").err)
            /\ rootErr' = "lstat"
            /\ UNCHANGED stack
       ELSE /\ stack' = <<[path   |-> conn.scanDir,
                           isDir  |-> IsDirEntry(StatEntry(conn.scanDir)),
                           cached |-> TRUE]>>
            /\ pc' = "walk"
            /\ UNCHANGED <<recordsClosed, retErr, rootErr>>
    /\ UNCHANGED <<envVars, ctorVars, op, cur, cap, records, sent,
                   resVars, expVars, hostVars, outVars>>

\* the entries os.ReadDir lists in directory d, as walkDir descends into them
DirEntries(d) ==
    CHOOSE r \in
        { [i \in 1..Len(names) |->
              [path   |-> Join(d.path, names[i].name),
               isDir  |-> names[i].isDir,
               cached |-> FALSE]]
          : names \in {ReadDir(d.path)} } : TRUE

\* filepath.walkDir on entry d after the callback returned err for it: an
\* error ends the walk; a directory is read (a read error is reported to the
\* callback in a second call) and its entries are walked next, in order
WalkAfter(d, err) ==
    IF err # "nil"
    THEN ImportReturn(err) /\ UNCHANGED <<stack, rootErr>>
    ELSE IF ~d.isDir
    THEN /\ stack' = Tail(stack)
         /\ pc' = "walk"
         /\ UNCHANGED <<recordsClosed, retErr, rootErr>>
    ELSE /\ rootErr' = IF d.cached /\ ~ReadDirOK(d.path)
                       THEN "readdir" ELSE rootErr
         /\ IF ~ReadDirOK(d.path) /\ WalkFn(d, "readdir error").err # "nil"
            THEN ImportReturn(WalkFn(d, "readdir error").err) /\ UNCHANGED stack
            ELSE /\ stack' = DirEntries(d) \o Tail(stack)
                 /\ pc' = "walk"
                 /\ UNCHANGED <<recordsClosed, retErr>>

\* filepath.walkDir calls the callback on the next entry; the callback
\* either has a Record to send or returns at once
TI_Visit ==
    /\ op = "Import" /\ conn.type = "TestImporter" /\ pc = "walk"
    /\ stack # <<>>
    /\ LET d == Head(stack)
           r == WalkFn(d, "nil")
       IN  IF r.rec # NoItem
           THEN /\ cur' = r.rec
                /\ pc' = "send"
                /\ UNCHANGED <<stack, recordsClosed, retErr, rootErr>>
           ELSE WalkAfter(d, r.err) /\ UNCHANGED cur
    /\ UNCHANGED <<envVars, ctorVars, op, cap, records, sent,
                   resVars, expVars, hostVars, outVars>>

\* importer.go: records <- connectors.NewRecord(...), inside the callback,
\* which then returns nil to walkDir
TI_Send ==
    /\ op = "Import" /\ conn.type = "TestImporter" /\ pc = "send"
    /\ CanSend(records)
    /\ records' = AfterSend(records, cur)
    /\ sent' = Append(sent, cur)
    /\ cur' = NoItem
    /\ WalkAfter(Head(stack), "nil")
    /\ UNCHANGED <<envVars, ctorVars, op, cap, resVars, expVars, hostVars,
                   outVars>>

\* WalkDir has walked every entry: Import returns its result
TI_Return ==
    /\ op = "Import" /\ conn.type = "TestImporter" /\ pc = "walk"
    /\ stack = <<>>
    /\ ImportReturn("nil")
    /\ UNCHANGED <<envVars, ctorVars, rootErr, op, stack, cur, cap, records, sent,
                   resVars, expVars, hostVars, outVars>>

(* ------------------------- testConnector.Import ------------------------ *)

\* Import reading the configured location instead of FILE
TC_Stat_UsesLocation ==
    /\ op = "Import" /\ conn.type = "testConnector" /\ pc = "stat"
    /\ LET file == IF "location" \in DOMAIN config
                   THEN ResolveLocation(ProtoName, config["location"])
                   ELSE FILE
       IN  IF ~StatOK(file)
           THEN ImportReturn("stat error") /\ UNCHANGED cur
           ELSE /\ cur' = NewRecord(file, SizeOf(StatEntry(file)))
                /\ pc' = "send"
                /\ UNCHANGED <<recordsClosed, retErr>>
    /\ UNCHANGED <<envVars, ctorVars, rootErr, op, stack, cap, records, sent,
                   resVars, expVars, hostVars, outVars>>

\* connector.go: info, err := os.Stat(FILE); if err != nil { return err }
TC_Stat ==
    /\ op = "Import" /\ conn.type = "testConnector" /\ pc = "stat"
    /\ IF ~StatOK(FILE)
       THEN ImportReturn("stat error") /\ UNCHANGED cur
       ELSE /\ cur' = NewRecord(FILE, SizeOf(StatEntry(FILE)))
            /\ pc' = "send"
            /\ UNCHANGED <<recordsClosed, retErr>>
    /\ UNCHANGED <<envVars, ctorVars, rootErr, op, stack, cap, records, sent,
                   resVars, expVars, hostVars, outVars>>

\* connector.go: records <- connectors.NewRecord(FILE, ...)
TC_Send ==
    /\ op = "Import" /\ conn.type = "testConnector" /\ pc = "send"
    /\ CanSend(records)
    /\ records' = AfterSend(records, cur)
    /\ sent' = Append(sent, cur)
    /\ cur' = NoItem
    /\ pc' = "sent"
    /\ UNCHANGED <<envVars, ctorVars, rootErr, op, stack, retErr, cap, recordsClosed,
                   resVars, expVars, hostVars, outVars>>

\* connector.go: return nil
TC_Return ==
    /\ op = "Import" /\ conn.type = "testConnector" /\ pc = "sent"
    /\ ImportReturn("nil")
    /\ UNCHANGED <<envVars, ctorVars, rootErr, op, stack, cur, cap, records, sent,
                   resVars, expVars, hostVars, outVars>>

\* the host receives a Record the importer sent to a buffered channel
HostRecvRecord ==
    /\ op = "Import"
    /\ ~hostStopped
    /\ records # <<>>
    /\ records' = Tail(records)
    /\ UNCHANGED <<envVars, ctorVars, callVars, cap, recordsClosed, sent,
                   resVars, expVars, hostVars, outVars>>

(* ------------------------------- Flags --------------------------------- *)

Flags_NeedAck(c) ==
    IF c.type = "TestImporter" THEN {"FLAG_NEEDACK"} ELSE {"FLAG_LOCALFS"}

\* TestImporter.Flags returns 0, testConnector.Flags returns FLAG_LOCALFS
Flags(c) ==
    IF c.type = "TestImporter" THEN {} ELSE {"FLAG_LOCALFS"}

\* the host acknowledges a Record it has received with a Result on the
\* Result channel it handed to Import.  No importer receives from that
\* channel: a Result stays in its buffer, and on an unbuffered channel the
\* send never completes.
HostSendAck ==
    /\ op = "Import"
    /\ ~hostStopped
    /\ cap > 0
    /\ Len(results) < cap
    /\ acked < Len(sent) - Len(records)
    /\ results' = Append(results, [kind |-> "result",
                                   record |-> sent[acked + 1],
                                   err |-> "nil"])
    /\ acked' = acked + 1
    /\ UNCHANGED <<envVars, ctorVars, callVars, cap, recVars, resultsClosed,
                   resSent, recvd, hostSent, hostVars, outVars>>

(* ------------------------- testConnector.Export ------------------------ *)

\* the Records the host may hand to Export: a file of 10 bytes with its
\* content stream open, a file whose content is empty, and a directory,
\* which has no content stream
HostRecords ==
    { [kind |-> "record", Pathname |-> <<"x", "/", "y.txt">>,
       Lname |-> <<"y.txt">>, Lsize |-> 10, Ldev |-> 1,
       Reader |-> [kind |-> "stream", len |-> 10]],
      [kind |-> "record", Pathname |-> <<"x">>,
       Lname |-> <<"x">>, Lsize |-> 0, Ldev |-> 1,
       Reader |-> NoItem] }

\* record.Ok()
Ok(record) == [kind |-> "result", record |-> record, err |-> "nil"]

\* a failure Result that loses the error
Error_Swallowed(record, err) == [kind |-> "result", record |-> record, err |-> "nil"]

\* record.Error(err)
Error(record, err) == [kind |-> "result", record |-> record, err |-> err]

\* the body of Export's loop for one Record: what it writes to os.Stderr and
\* the Result it sends; copyFails is the outcome of io.Copy
\* a Result constructor that leaves the Record's content stream open
ClosesReader_Never(record) ==
    <<>>

\* record.Ok() and record.Error(err) close the Record's content stream, if it
\* has one, when they make the Result
ClosesReader(record) ==
    IF record.Reader # NoItem THEN <<[ev |-> "close", open |-> FALSE]>> ELSE <<>>

ExportBody_Stdout(record, copyFails) ==
    LET header == <<[ev |-> "header", path |-> record.Pathname]>>
    IN  IF record.Reader # NoItem /\ copyFails
        THEN [out |-> <<[ev |-> "partial"]>>, std |-> header,
              res |-> Error(record, "copy error"), cl |-> ClosesReader(record)]
        ELSE IF record.Reader # NoItem
        THEN [out |-> <<[ev |-> "content", len |-> record.Reader.len],
                        [ev |-> "newline"]>>,
              std |-> header, res |-> Ok(record), cl |-> ClosesReader(record)]
        ELSE [out |-> <<>>, std |-> header, res |-> Ok(record),
              cl |-> ClosesReader(record)]

ExportBody(record, copyFails) ==
    LET header == <<[ev |-> "header", path |-> record.Pathname]>>
    IN  IF record.Reader # NoItem
        THEN IF copyFails
             THEN [out |-> header \o <<[ev |-> "partial"]>>,
                   std |-> <<>>,
                   res |-> Error(record, "copy error"),
                   cl  |-> ClosesReader(record)]
             ELSE [out |-> header \o <<[ev |-> "content", len |-> record.Reader.len],
                                      [ev |-> "newline"]>>,
                   std |-> <<>>,
                   res |-> Ok(record),
                   cl  |-> ClosesReader(record)]
        ELSE [out |-> header, std |-> <<>>, res |-> Ok(record),
              cl |-> ClosesReader(record)]

\* defer close(results); return err
ExportReturn(err) ==
    /\ resultsClosed' = resultsClosed + 1
    /\ retErr' = err
    /\ pc' = "returned"

\* the host calls Export on an exporter
StartExport ==
    /\ op = "none"
    /\ closeCalls = 0
    /\ conn.type = "testConnector" /\ conn.role = "exporter"
    /\ op' = "Export"
    /\ pc' = "recv"
    /\ pingErr' = "none"
    /\ UNCHANGED <<envVars, ctorVars, rootErr, stack, cur, retErr, cap, recVars,
                   resVars, expVars, ctxDone, hostStopped, closeCalls, closeErr,
                   outVars>>

\* the host sends a Record on the buffered Record channel
HostSendRecord ==
    /\ op = "Export"
    /\ ~hostStopped
    /\ recordsClosed = 0
    /\ hostSent < MaxRecords
    /\ Len(records) < cap
    /\ \E r \in HostRecords : records' = Append(records, r)
    /\ hostSent' = hostSent + 1
    /\ UNCHANGED <<envVars, ctorVars, callVars, cap, recordsClosed, sent,
                   resVars, recvd, acked, hostVars, outVars>>

\* the host closes the Record channel: no more Records
HostCloseRecords ==
    /\ op = "Export"
    /\ ~hostStopped
    /\ recordsClosed = 0
    /\ recordsClosed' = 1
    /\ UNCHANGED <<envVars, ctorVars, callVars, cap, records, sent,
                   resVars, expVars, hostVars, outVars>>

\* Export has received record: the loop body runs up to the send of the Result
ExportProcess(record) ==
    \E copyFails \in BOOLEAN :
        LET b == ExportBody(record, copyFails)
        IN  /\ recvd' = Append(recvd, record)
            /\ stderr' = stderr \o b.out
            /\ stdout' = stdout \o b.std
            /\ streamLog' = streamLog
                              \o <<[ev |-> "recv", open |-> record.Reader # NoItem]>>
                              \o b.cl
            /\ cur' = b.res
            /\ pc' = "sendres"

\* connector.go: for record := range records { ... }: the next Record is
\* received from the buffer, or straight from the host on an unbuffered
\* channel; the loop ends when the channel is closed and empty
EX_Recv ==
    /\ op = "Export" /\ pc = "recv"
    /\ \/ /\ records # <<>>
          /\ ExportProcess(Head(records))
          /\ records' = Tail(records)
          /\ UNCHANGED <<hostSent, resultsClosed, retErr>>
       \/ /\ cap = 0 /\ records = <<>> /\ recordsClosed = 0
          /\ ~hostStopped /\ hostSent < MaxRecords
          /\ \E r \in HostRecords : ExportProcess(r)
          /\ hostSent' = hostSent + 1
          /\ UNCHANGED <<records, resultsClosed, retErr>>
       \/ /\ records = <<>> /\ recordsClosed > 0
          /\ ExportReturn("nil")
          /\ UNCHANGED <<records, recvd, hostSent, stderr, stdout, streamLog, cur>>
    /\ UNCHANGED <<envVars, ctorVars, rootErr, op, stack, cap, recordsClosed, sent,
                   results, resSent, acked, hostVars, dst>>

\* the loop body without its continue: after the failure Result the code
\* falls through to the send of record.Ok()
EX_SendResult_NoContinue ==
    /\ op = "Export" /\ pc = "sendres"
    /\ CanSend(results)
    /\ LET out == IF cur.err # "nil" THEN <<cur, Ok(cur.record)>> ELSE <<cur>>
       IN  /\ results' = IF cap = 0 THEN results ELSE results \o out
           /\ resSent' = resSent \o out
    /\ cur' = NoItem
    /\ pc' = "recv"
    /\ UNCHANGED <<envVars, ctorVars, rootErr, op, stack, retErr, cap, recVars,
                   resultsClosed, expVars, hostVars, outVars>>

\* connector.go: results <- record.Error(err) / results <- record.Ok()
EX_SendResult ==
    /\ op = "Export" /\ pc = "sendres"
    /\ CanSend(results)
    /\ results' = AfterSend(results, cur)
    /\ resSent' = Append(resSent, cur)
    /\ cur' = NoItem
    /\ pc' = "recv"
    /\ UNCHANGED <<envVars, ctorVars, rootErr, op, stack, retErr, cap, recVars,
                   resultsClosed, expVars, hostVars, outVars>>

\* the host receives a Result the exporter sent to a buffered channel
HostRecvResult ==
    /\ op = "Export"
    /\ ~hostStopped
    /\ results # <<>>
    /\ results' = Tail(results)
    /\ UNCHANGED <<envVars, ctorVars, callVars, cap, recVars, resultsClosed,
                   resSent, expVars, hostVars, outVars>>

(* ------------------------- Export, then Import ------------------------- *)

\* after Export returned, the host constructs the importer of the same
\* plugin with the same configuration and calls Import on it, with a new
\* context and new channels
StartImportAfterExport ==
    /\ op = "Export" /\ pc = "returned"
    /\ ~hostStopped
    /\ closeCalls = 0
    /\ LET r == NewImporterResult(ProtoName, config)
       IN  /\ ctor' = "NewImporter"
           /\ conn' = r.conn
           /\ ctorErr' = r.err
    /\ op' = "Import"
    /\ pc' = "stat"
    /\ retErr' = "none"
    /\ records' = <<>>
    /\ recordsClosed' = 0
    /\ results' = <<>>
    /\ resultsClosed' = 0
    /\ ctxDone' = FALSE
    /\ UNCHANGED <<envVars, config, stack, cur, rootErr, cap, sent, resSent,
                   expVars, hostStopped, lifeVars, outVars>>

(* -------------------------------- Close -------------------------------- *)

Close_Once(c) ==
    [err |-> IF closeCalls > 0 THEN "already closed" ELSE "nil", conn |-> c]

\* TestImporter.Close and testConnector.Close: return nil, the receiver and
\* every channel are left as they are
Close(c) ==
    [err |-> "nil", conn |-> c]

\* the host calls Close on a constructed Connector: before any call, after a
\* Ping, after Import or Export returned with or without an error, and again
\* after an earlier Close.  Close is the last method the host calls: no
\* Import or Export starts after it.
HostClose ==
    /\ conn # NoConn
    /\ op = "none" \/ pc = "returned"
    /\ closeCalls < MaxCloses
    /\ LET r == Close(conn)
       IN  /\ conn' = r.conn
           /\ closeErr' = r.err
    /\ closeCalls' = closeCalls + 1
    /\ UNCHANGED <<envVars, ctor, config, ctorErr, callVars, cap, recVars,
                   resVars, expVars, ctxDone, hostStopped, pingErr, outVars>>

(* -------------------------------- Ping --------------------------------- *)

\* the host checks a constructed Connector with Ping before it uses it; it
\* has read the answer by the time it starts Import or Export
HostPing ==
    /\ conn # NoConn
    /\ op = "none"
    /\ closeCalls = 0
    /\ pingErr = "none"
    /\ pingErr' = Ping(conn)
    /\ UNCHANGED <<envVars, ctorVars, callVars, cap, recVars, resVars, expVars,
                   ctxDone, hostStopped, closeCalls, closeErr, outVars>>

(* ---------------------------- specification ---------------------------- *)

\* the steps of the Connector's own code
ConnectorStep ==
    \/ TI_Ping \/ TI_Lstat \/ TI_Visit \/ TI_Send \/ TI_Return
    \/ TC_Stat \/ TC_Send \/ TC_Return
    \/ EX_Recv \/ EX_SendResult

Next ==
    \/ Fault
    \/ Construct
    \/ HostCancel
    \/ HostStop
    \/ StartImport
    \/ TI_Ping
    \/ TI_Lstat
    \/ TI_Visit
    \/ TI_Send
    \/ TI_Return
    \/ TC_Stat
    \/ TC_Send
    \/ TC_Return
    \/ HostRecvRecord
    \/ StartExport
    \/ HostSendRecord
    \/ HostCloseRecords
    \/ EX_Recv
    \/ EX_SendResult
    \/ HostRecvResult
    \/ StartImportAfterExport
    \/ HostClose
    \/ HostPing
    \/ HostSendAck

Spec == Init /\ [][Next]_vars

\* the Go scheduler runs a goroutine that is not blocked
FairSpec == Spec /\ WF_vars(ConnectorStep)

\* and a host that has not stopped keeps receiving Records and Results and
\* closes the Record channel it sends on
HostFairSpec ==
    /\ FairSpec
    /\ WF_vars(HostRecvRecord)
    /\ WF_vars(HostRecvResult)
    /\ WF_vars(HostCloseRecords)

(* ------------------------------- claims -------------------------------- *)

\* C1: in every Import run of either importer the Record channel is closed
\* exactly once, at the return of the call and on every return path, and no
\* Record is sent after the close.
C1_RecordChannelClosedOnce ==
    /\ [](op = "Import" =>
            /\ recordsClosed <= 1
            /\ (pc = "returned") <=> (recordsClosed = 1))
    /\ [][op = "Import" /\ recordsClosed > 0 => sent' = sent]_vars

\* C1 witness: an Import that sent a Record returned after the host
\* cancelled the context, the channel closed once.
C1_Witness ==
    /\ op = "Import" /\ pc = "returned" /\ ctxDone
    /\ Len(sent) >= 1
    /\ recordsClosed = 1

\* the outcome of io.Copy for the i-th Record Export received, read off
\* os.Stderr: the event after the Record's header
HeaderPositions == { k \in 1..Len(stderr) : stderr[k].ev = "header" }

CopyFailed(i) ==
    \E k \in HeaderPositions :
        /\ Cardinality({ j \in HeaderPositions : j <= k }) = i
        /\ k < Len(stderr)
        /\ stderr[k + 1].ev = "partial"

\* C2: in every Export run the i-th Result sent is the Result of the i-th
\* Record received, one Result per Record, and the Result channel is closed
\* exactly once, at the return, after the host closed the Record channel and
\* every received Record has had its Result sent.
C2_OneResultPerRecord ==
    /\ [](op = "Export" =>
            /\ Len(resSent) = IF pc = "sendres" THEN Len(recvd) - 1 ELSE Len(recvd)
            /\ \A i \in 1..Len(resSent) : resSent[i].record = recvd[i]
            /\ resultsClosed <= 1
            /\ (pc = "returned") <=> (resultsClosed = 1)
            /\ resultsClosed = 1 =>
                  /\ recordsClosed = 1
                  /\ records = <<>>
                  /\ Len(recvd) = hostSent
                  /\ Len(resSent) = Len(recvd))
    /\ [][op = "Export" /\ resultsClosed > 0 => resSent' = resSent]_vars

\* C2 witness: Export returned after a Record with a content stream whose
\* copy failed and a Record without one, one Result each.
C2_Witness ==
    /\ op = "Export" /\ pc = "returned"
    /\ Len(recvd) = 2 /\ Len(resSent) = 2
    /\ recvd[1].Reader # NoItem /\ resSent[1].err # "nil"
    /\ recvd[2].Reader = NoItem /\ resSent[2].err = "nil"

\* C3: a Record whose copy failed gets a failure Result carrying the error,
\* and only such a Record does; the failure ends nothing: Export returns only
\* when the host closed the Record channel, with no error, the Result channel
\* closed and one Result sent for every Record the host sent.
C3_PerItemFailureContinues ==
    op = "Export" =>
        /\ \A i \in 1..Len(resSent) :
              /\ (resSent[i].err # "nil") <=> CopyFailed(i)
              /\ CopyFailed(i) =>
                    resSent[i] = [kind |-> "result", record |-> recvd[i],
                                  err |-> "copy error"]
        /\ pc # "returned" => retErr = "none" /\ resultsClosed = 0
        /\ pc = "returned" =>
              /\ retErr = "nil"
              /\ resultsClosed = 1
              /\ recordsClosed = 1
              /\ Len(resSent) = hostSent

\* C3 witness: Export returned after a failed copy on the first Record and
\* a successful one on the second.
C3_Witness ==
    /\ op = "Export" /\ pc = "returned" /\ retErr = "nil"
    /\ Len(resSent) = 2
    /\ CopyFailed(1) /\ resSent[1].err = "copy error"
    /\ ~CopyFailed(2) /\ recvd[2].Reader # NoItem /\ resSent[2].err = "nil"

\* the configuration has no location key
NoLocation == "location" \notin DOMAIN config

C5_EmptyRemainderRejected ==
    ( /\ ctor = "NewTestImporter"
      /\ ~NoLocation
      /\ config["location"] = ProtoName \o <<":", "/", "/">> ) =>
        /\ ctorErr \notin {"nil", "none"}
        /\ conn = NoConn

\* C6: a TestImporter.Import that met an error on the traversal root (Ping
\* failed, WalkDir could not lstat it, or could not read it as a directory)
\* returns a non-nil error.
C6_RootFailureIsFatal ==
    ( /\ op = "Import" /\ conn.type = "TestImporter"
      /\ pc = "returned"
      /\ rootErr # "none" ) =>
        retErr # "nil"

\* the entry the TestImporter is rooted at, and the entries below it
RootEntry == CHOOSE e \in Entries : PathOf(e) = conn.scanDir

TreeOf(root) == { e \in Entries : IsAncestorOrSelf(root, e) }

\* the Records sent for entry f
RecordsFor(f) == { i \in 1..Len(sent) : sent[i].Pathname = PathOf(f) }

\* C7: every Record TestImporter.Import sends is the Record of a
\* non-directory entry under the root, with its full path, base name and
\* size; when the tree under the root is readable, Import returns having
\* sent exactly one Record per non-directory entry and closed the channel.
C7_OneRecordPerFile ==
    (op = "Import" /\ conn.type = "TestImporter") =>
        LET files == TreeOf(RootEntry) \cap Files
        IN  /\ \A i \in 1..Len(sent) :
                  \E f \in files :
                      /\ sent[i].Pathname = PathOf(f)
                      /\ sent[i].Lname = <<f[Len(f)]>>
                      /\ sent[i].Lsize = FileSize[f]
            /\ ( /\ pc = "returned"
                 /\ Present(RootEntry)
                 /\ \A e \in TreeOf(RootEntry) : fs[e] = "ok" ) =>
                  /\ Len(sent) = Cardinality(files)
                  /\ \A f \in files : Cardinality(RecordsFor(f)) = 1
                  /\ recordsClosed = 1
                  /\ retErr = "nil"

\* C7 witness: the scenario of the spec: rooted at /tmp/src, Import returned
\* having sent a.txt (5 bytes) and b/c.txt (3 bytes).
C7_Witness ==
    /\ op = "Import" /\ conn.type = "TestImporter" /\ pc = "returned"
    /\ conn.scanDir = <<"/", "tmp", "/", "src">>
    /\ Len(sent) = 2
    /\ sent[1].Pathname = <<"/", "tmp", "/", "src", "/", "a.txt">>
    /\ sent[1].Lsize = 5
    /\ sent[2].Pathname = <<"/", "tmp", "/", "src", "/", "b", "/", "c.txt">>
    /\ sent[2].Lsize = 3
    /\ recordsClosed = 1

\* entry f and every directory from the root down to it are intact
Healthy(f) ==
    /\ Present(f)
    /\ \A a \in TreeOf(RootEntry) : IsAncestorOrSelf(a, f) => fs[a] = "ok"

\* C8: a failure on an entry other than the root never fails Import: it
\* returns nil unless the root itself failed, every intact non-directory
\* entry under the root has been sent exactly once, and no entry twice.
C8_LenientPerEntry ==
    ( /\ op = "Import" /\ conn.type = "TestImporter"
      /\ pc = "returned" ) =>
        /\ rootErr = "none" => retErr = "nil"
        /\ \A f \in TreeOf(RootEntry) \cap Files :
              /\ Healthy(f) => Cardinality(RecordsFor(f)) = 1
              /\ Cardinality(RecordsFor(f)) <= 1

\* C8 witness: rooted at /tmp/src with the subdirectory b unreadable, Import
\* returned nil having sent a.txt only.
C8_Witness ==
    /\ op = "Import" /\ conn.type = "TestImporter" /\ pc = "returned"
    /\ conn.scanDir = <<"/", "tmp", "/", "src">>
    /\ fs[<<"tmp", "src", "b">>] = "unlistable"
    /\ retErr = "nil" /\ rootErr = "none"
    /\ Len(sent) = 1
    /\ sent[1].Lname = <<"a.txt">>

\* C9: a call whose context the host has cancelled does not stay blocked:
\* even with the host no longer serving the channels, a call that has not
\* returned can take its next step (and so goes on to close its outbound
\* channel and return).
C9_CancelledCallNotBlocked ==
    ( /\ op # "none"
      /\ ctxDone
      /\ hostStopped
      /\ pc # "returned" ) =>
        ENABLED ConnectorStep

\* C10: after an Export of the single Record x/y.txt with a 10-byte content
\* stream that was copied without error, the destination holds the file
\* <root>/x/y.txt with those 10 bytes and one success Result was sent.
C10_ExportMaterializes ==
    ( /\ op = "Export" /\ pc = "returned"
      /\ Len(recvd) = 1
      /\ recvd[1].Pathname = <<"x", "/", "y.txt">>
      /\ recvd[1].Reader # NoItem
      /\ ~CopyFailed(1) ) =>
        LET dest == Join(Root(conn), recvd[1].Pathname)
        IN  /\ dest \in DOMAIN dst
            /\ dst[dest] = recvd[1].Reader.len
            /\ resSent = <<Ok(recvd[1])>>


\* filepath.Rel(root, path) for a path under root
RelPath(root, path) == TrimPrefix(path, root \o <<"/">>)

\* C11: after an Export followed by an Import on the same root, every file
\* the Export received and copied without error is reproduced by a Record of
\* the Import with the same name, size and relative path.
C11_RoundTrip ==
    ( /\ op = "Import" /\ pc = "returned"
      /\ recvd # <<>> ) =>
        \A i \in 1..Len(recvd) :
            (recvd[i].Reader # NoItem /\ ~CopyFailed(i)) =>
                \E j \in 1..Len(sent) :
                    /\ sent[j].Lname = recvd[i].Lname
                    /\ sent[j].Lsize = recvd[i].Lsize
                    /\ RelPath(Root(conn), sent[j].Pathname) = recvd[i].Pathname


\* C12: Close never fails, in whatever state of the Connector's life it is
\* called and however often, and it changes nothing: the Connector, the call
\* in progress, the channels and the filesystem are as before the call.
C12_CloseSafe ==
    [][ closeCalls' # closeCalls =>
          /\ closeErr' = "nil"
          /\ UNCHANGED <<envVars, ctorVars, callVars, cap, recVars, resVars,
                         expVars, ctxDone, hostStopped, pingErr, outVars>> ]_vars

\* a second Close, on a Connector whose Import has returned
C12_Witness ==
    /\ closeCalls = 2
    /\ closeErr = "nil"
    /\ op = "Import" /\ pc = "returned"


\* C13: whatever calls were made on the Connector (construction, Ping,
\* Import, Export, Close), nothing was written to os.Stdout; what Export emits
\* is on os.Stderr: one header per Record received, in order, carrying the
\* Record's pathname, followed by the content of a stream that was copied.
C13_NothingOnStdout ==
    /\ stdout = <<>>
    /\ Cardinality(HeaderPositions) = Len(recvd)
    /\ \A k \in HeaderPositions :
          LET i == Cardinality({ j \in HeaderPositions : j <= k })
          IN  /\ stderr[k].path = recvd[i].Pathname
              /\ (recvd[i].Reader # NoItem /\ ~CopyFailed(i)) =>
                    /\ k < Len(stderr)
                    /\ stderr[k + 1] = [ev |-> "content", len |-> recvd[i].Reader.len]

\* C13 witness: Export has written a header and a content stream and has
\* returned, and the Connector was closed.
C13_Witness ==
    /\ op = "Export" /\ pc = "returned"
    /\ closeCalls > 0
    /\ \E k \in 1..Len(stderr) : stderr[k].ev = "content"
    /\ stdout = <<>>


\* a step of Import's own code or the host's receive of a Record: the steps
\* an Import needs to get on, none of which touches the Result channel
ImportStep ==
    \/ TI_Ping \/ TI_Lstat \/ TI_Visit \/ TI_Send \/ TI_Return
    \/ TC_Stat \/ TC_Send \/ TC_Return
    \/ HostRecvRecord

\* C14: no importer declares FLAG_NEEDACK and no Import step receives from
\* the Result channel: every Result the host sent is still in the channel, in
\* the order sent, and the channel is not closed by Import.  An Import whose
\* host receives Records is never waiting for the Result channel: some step
\* that does not involve the channel can be taken until Import has returned,
\* with the Record channel closed.
C14_NoAckNoReceive ==
    /\ conn # NoConn => "FLAG_NEEDACK" \notin Flags(conn)
    /\ op = "Import" =>
          /\ Len(results) = acked
          /\ \A i \in 1..acked : results[i].record = sent[i]
          /\ resultsClosed = 0
          /\ ~hostStopped =>
                IF pc = "returned"
                THEN recordsClosed = 1
                ELSE ENABLED ImportStep

\* C14 witness: a TestImporter's Import has returned after sending Records,
\* the host never having sent on the Result channel or closed it.
C14_Witness ==
    /\ op = "Import" /\ pc = "returned"
    /\ conn.type = "TestImporter"
    /\ Len(sent) > 1
    /\ recordsClosed = 1
    /\ results = <<>> /\ resultsClosed = 0


\* the one Record testConnector.Import makes, for the constant FILE with the
\* size of the file on disk
FileRecord ==
    [kind     |-> "record",
     Pathname |-> FILE,
     Lname    |-> <<"notes.md">>,
     Lsize    |-> 7,
     Ldev     |-> 1,
     Reader   |-> NoItem]

\* C15: whatever configuration a testConnector importer was constructed with,
\* its Import stats FILE: if the stat fails Import returns the stat error with
\* no Record sent, otherwise it sends exactly one Record, for FILE, and
\* returns nil; the Record channel is closed at the return in both cases.
C15_ImportIgnoresConfig ==
    /\ []((op = "Import" /\ conn.type = "testConnector") =>
            /\ \A i \in 1..Len(sent) : sent[i] = FileRecord
            /\ Len(sent) <= 1
            /\ pc = "returned" =>
                  /\ recordsClosed = 1
                  /\ \/ retErr = "nil" /\ sent = <<FileRecord>>
                     \/ retErr = "stat error" /\ sent = <<>>)
    /\ [][(op = "Import" /\ conn.type = "testConnector" /\ pc = "stat"
            /\ pc' # "stat") =>
              IF StatOK(FILE)
              THEN pc' = "send" /\ cur' = FileRecord
              ELSE pc' = "returned" /\ retErr' = "stat error"]_vars

\* C15 witness: an importer constructed with the location test:///tmp/src
\* has sent the Record of FILE and returned.
C15_Witness ==
    /\ op = "Import" /\ conn.type = "testConnector" /\ pc = "returned"
    /\ "location" \in DOMAIN config
    /\ config["location"] = <<"test", ":", "/", "/", "/", "tmp", "/", "src">>
    /\ sent = <<FileRecord>>
    /\ retErr = "nil"


\* C16: with a host that keeps receiving Records, every Import returns with
\* the Record channel closed, whatever the tree and the capacity of the
\* channel, unbuffered included; with a host that sends its Records, closes
\* the Record channel and keeps receiving Results, every Export returns with
\* the Result channel closed.
C16_Progress ==
    /\ (op = "Import") ~> ((pc = "returned" /\ recordsClosed = 1) \/ hostStopped)
    /\ (op = "Export") ~> ((pc = "returned" /\ resultsClosed = 1) \/ hostStopped)

\* C16 witness: an Import over an unbuffered channel has sent the Records of
\* a tree and returned, the host still receiving.
C16_Witness ==
    /\ op = "Import" /\ pc = "returned"
    /\ cap = 0
    /\ Len(sent) > 1
    /\ ~hostStopped


\* the entry a Record's pathname names
EntryOf(path) == CHOOSE e \in Entries : PathOf(e) = path

\* entry a is walked before entry b in a depth-first walk that reads every
\* directory in filename order: a is above b, or at the first element where
\* they differ a's name sorts first
WalkBefore(a, b) ==
    \E k \in 1..Len(b) :
        /\ k <= Len(a) + 1
        /\ SubSeq(a, 1, k - 1) = SubSeq(b, 1, k - 1)
        /\ k = Len(a) + 1 \/ NameRank(a[k]) < NameRank(b[k])

\* the Records of the non-directory entries under root, in walk order
WalkOrder(root) ==
    LET files == TreeOf(root) \cap Files
    IN  [i \in 1..Cardinality(files) |->
            LET f == CHOOSE g \in files :
                         Cardinality({ h \in files : WalkBefore(h, g) }) = i - 1
            IN  NewRecord(PathOf(f), FileSize[f])]

\* C17: the Records of one TestImporter.Import call are sent in the order of
\* a depth-first walk in filename order, so no path is sent twice; over a tree
\* that did not change the sequence sent is determined by the root alone: any
\* two runs send the same Records in the same order.
C17_DeterministicOrder ==
    (op = "Import" /\ conn.type = "TestImporter") =>
        /\ \A i, j \in 1..Len(sent) :
              i < j => WalkBefore(EntryOf(sent[i].Pathname), EntryOf(sent[j].Pathname))
        /\ (pc = "returned" /\ faults = 0) => sent = WalkOrder(RootEntry)

\* C17 witness: rooted at /, Import returned over the unchanged tree having
\* sent notes.md, a.txt and b/c.txt in this order.
C17_Witness ==
    /\ op = "Import" /\ conn.type = "TestImporter" /\ pc = "returned"
    /\ faults = 0
    /\ conn.scanDir = <<"/">>
    /\ Len(sent) = 3
    /\ sent[1].Lname = <<"notes.md">>
    /\ sent[2].Lname = <<"a.txt">>
    /\ sent[3].Lname = <<"c.txt">>


\* the content streams open after the first k events of the log
OpenAfter(k) ==
    Cardinality({ i \in 1..k : streamLog[i].ev = "recv" /\ streamLog[i].open })
      - Cardinality({ i \in 1..k : streamLog[i].ev = "close" })

\* C18: the content stream of a Record that Export received is closed once,
\* by the Result made for that Record, before the next Record is received:
\* at most one received stream is open at any point, every close is the
\* close of the stream just received, and none is open when the Result has
\* been made, so none after Export returned.
C18_StreamsClosedOnce ==
    /\ Cardinality({ i \in 1..Len(streamLog) : streamLog[i].ev = "recv" }) = Len(recvd)
    /\ \A k \in 1..Len(streamLog) :
          /\ OpenAfter(k) \in {0, 1}
          /\ streamLog[k].ev = "close" =>
                k > 1 /\ streamLog[k - 1] = [ev |-> "recv", open |-> TRUE]
          /\ (streamLog[k].ev = "recv" /\ streamLog[k].open) =>
                k < Len(streamLog) /\ streamLog[k + 1].ev = "close"
    /\ OpenAfter(Len(streamLog)) = 0

\* C18 witness: Export returned after two Records with content streams, the
\* copy of the first having failed: each stream was closed once.
C18_Witness ==
    /\ op = "Export" /\ pc = "returned"
    /\ Len(recvd) = 2
    /\ recvd[1].Reader # NoItem /\ recvd[2].Reader # NoItem
    /\ CopyFailed(1) /\ ~CopyFailed(2)
    /\ Cardinality({ i \in 1..Len(streamLog) : streamLog[i].ev = "close" }) = 2


\* the <path> of a location p://<path>; a location without the prefix is
\* its own path
PathPart(p, location) ==
    IF HasPrefix(location, p \o <<":", "/", "/">>)
    THEN SubSeq(location, Len(p) + 4, Len(location))
    ELSE location

\* the cleaned absolute form of path
AbsClean(path) ==
    Clean(IF HasPrefix(path, <<"/">>) THEN path ELSE <<"/">> \o path)

\* the locations of the two shapes: p://<path>, and no protocol prefix
Shaped(p, location) ==
    \/ HasPrefix(location, p \o <<":", "/", "/">>)
    \/ \A i \in 1..Len(location) : location[i] # ":"

\* C19: NewTestImporter given a location p://<path>, or one without a
\* protocol prefix, constructs a Connector exactly when the cleaned absolute
\* form of <path> can be stat'ed, and that form is its Root(): absolute,
\* canonical, with nothing of the prefix left (test:///tmp/src gives
\* /tmp/src); Root() of a constructed Connector never changes.
C19_RootResolution ==
    /\ []((ctor = "NewTestImporter" /\ conn # NoConn) =>
            /\ Root(conn)[1] = "/"
            /\ \A i \in 1..Len(Root(conn)) : Root(conn)[i] # ":"
            /\ Clean(Root(conn)) = Root(conn)
            /\ Shaped(ProtoName, config["location"]) =>
                  Root(conn) = AbsClean(PathPart(ProtoName, config["location"]))
            /\ config["location"] = <<"test", ":", "/", "/", "/", "tmp", "/", "src">> =>
                  Root(conn) = <<"/", "tmp", "/", "src">>)
    /\ [][(ctor = "none" /\ ctor' = "NewTestImporter"
            /\ "location" \in DOMAIN config'
            /\ Shaped(ProtoName, config'["location"])) =>
              LET path == AbsClean(PathPart(ProtoName, config'["location"]))
              IN  IF StatOK(path)
                  THEN conn' # NoConn /\ Root(conn') = path
                  ELSE conn' = NoConn]_vars
    /\ [][conn # NoConn => (conn' # NoConn /\ Root(conn') = Root(conn))]_vars

\* C19 witness: the location test:///tmp/src/../src/./b/ gave a Connector
\* rooted at /tmp/src/b, which has finished an Import.
C19_Witness ==
    /\ ctor = "NewTestImporter"
    /\ conn # NoConn
    /\ Len(config["location"]) > 8
    /\ Root(conn) = <<"/", "tmp", "/", "src", "/", "b">>
    /\ op = "Import" /\ pc = "returned"


\* an entry with this path is in the filesystem
Exists(path) == \E e \in Entries : PathOf(e) = path /\ Present(e)

\* C20: NewTestImporter given a location stats the resolved path before it
\* returns: it returns a Connector and no error when the path exists at that
\* moment, and the error "cannot access location" and no Connector when it
\* does not; the call changes neither the filesystem nor any channel or
\* output.
C20_EagerStat ==
    /\ []((ctor = "NewTestImporter" /\ ctorErr = "cannot access location") =>
            conn = NoConn)
    /\ [][(ctor = "none" /\ ctor' = "NewTestImporter") =>
            /\ "location" \in DOMAIN config' =>
                  IF Exists(ResolveLocation(ProtoName, config'["location"]))
                  THEN /\ conn' # NoConn
                       /\ ctorErr' = "nil"
                       /\ Exists(Root(conn'))
                  ELSE /\ conn' = NoConn
                       /\ ctorErr' = "cannot access location"
            /\ UNCHANGED <<envVars, callVars, cap, recVars, resVars, expVars,
                           hostVars, outVars>>]_vars

\* C20 witness: /tmp/src was removed before NewTestImporter was called with
\* test:///tmp/src: the construction failed.
C20_Witness ==
    /\ ctor = "NewTestImporter"
    /\ config = [k \in {"location"} |-> <<"test", ":", "/", "/", "/", "tmp", "/", "src">>]
    /\ ctorErr = "cannot access location"
    /\ conn = NoConn
    /\ faults = 1

====
